---- MODULE Spec2Model ----
(***************************************************************************)
(* Model of app.py: a read-only record lookup service with two backends,   *)
(* an SQLite table (USE_DB) and a lazy scan over JSON files                *)
(* (stream_records_from_parts), and three handlers: get_record,            *)
(* search_by_aadhar and search_by_email.                                   *)
(*                                                                         *)
(* Strings are sequences of characters.  A JSON object / table row is a    *)
(* TLA+ record; a key that is absent from the object (a NULL column in a   *)
(* row) is a field that is absent from the record's DOMAIN.                *)
(***************************************************************************)
EXTENDS Integers, Sequences, FiniteSets, TLC

VARIABLES
    USE_DB,      \* module global, app.py:21
    startSource, \* history: the source the storage at import time selects
    db,          \* state of fake_leak.db on disk
    single,      \* state of fake_leak1.json on disk
    parts,       \* state of each fake_leak_part_*.json on disk
    partData,    \* JSON array held by each partition file
    singleData,  \* JSON array held by fake_leak1.json
    pc,          \* "idle": waiting for a request; "done": a handler returned
    req,         \* the request being answered
    resp,        \* what the handler returned (or that it raised)
    loc,         \* search_by_aadhar's locals limit and offset
    opened,      \* files the generator opened during the request, in order
    produced,    \* number of records the generator yielded during the request
    connOpened,  \* get_db_conn() calls made by the request
    connOpen     \* connections of the request not closed when it finished

vars == <<USE_DB, startSource, db, single, parts, partData, singleData, pc,
          req, resp, loc, opened, produced, connOpened, connOpen>>

----------------------------------------------------------------------------
(* Bounds of the explored inputs *)

MaxId == 4
MaxLimit == 2
MaxOffset == 2

(* Program constants *)

DEFAULT_LIMIT == 10
DEFAULT_OFFSET == 0
LIMIT_MIN == 1
LIMIT_MAX == 1000
MISSING_ID == -1

----------------------------------------------------------------------------
(* Characters and strings *)

\* str.isdigit() is true of every Unicode digit: the decimal digits and also
\* characters such as SUPERSCRIPT TWO ("sup2").
UnicodeDigits == {"1", "2", "3", "5", "sup2"}

isdigit(s) == Len(s) > 0 /\ \A i \in 1..Len(s) : s[i] \in UnicodeDigits

lower_char(c) == IF c = "A" THEN "a" ELSE IF c = "B" THEN "b" ELSE c

lower(s) == [i \in 1..Len(s) |-> lower_char(s[i])]

\* Python's `q in a` on strings
contains(q, a) ==
    \E i \in 0..(Len(a) - Len(q)) : SubSeq(a, i + 1, i + Len(q)) = q

\* dict.get(key, default)
get(r, key, default) == IF key \in DOMAIN r THEN r[key] ELSE default

----------------------------------------------------------------------------
(* The dataset *)

R1 == [id |-> 1, aadhar_card |-> <<"1", "5">>, email |-> <<"a", "b">>]
R2 == [id |-> 2, aadhar_card |-> <<"5", "2">>, email |-> <<"A", "b">>]
R3 == [email |-> <<"b">>]
R4 == [id |-> 3, aadhar_card |-> <<"3", "5">>]

Pool == <<R1, R2, R3, R4>>

\* the orders in which the files hold the records, and where the first
\* partition file ends
Orders == {<<1, 2, 4, 3>>, <<4, 3, 2, 1>>, <<2, 3, 4, 1>>}

Splits == {1, 3}

\* the partition files, named by the part of the name the glob's * matches:
\* fake_leak_part_10.json and fake_leak_part_2.json, as character codes
P10 == <<49, 48>>
P2 == <<50>>
PartNames == {P10, P2}
JsonSuffix == <<46, 106, 115, 111, 110>>

FileSingle == [kind |-> "single", stem |-> <<>>]
FilePart(n) == [kind |-> "part", stem |-> n]

\* the rows of table leaks when the database holds the dataset
DbRows == {Pool[i] : i \in 1..Len(Pool)}

----------------------------------------------------------------------------
(* sorted(glob.glob(PART_GLOB)) *)

RECURSIVE LexLess(_, _)
LexLess(a, b) ==
    IF a = <<>> THEN b # <<>>
    ELSE IF b = <<>> THEN FALSE
    ELSE IF Head(a) # Head(b) THEN Head(a) < Head(b)
    ELSE LexLess(Tail(a), Tail(b))

NameLess(a, b) == LexLess(a \o JsonSuffix, b \o JsonSuffix)

RECURSIVE SortedNames(_)
SortedNames(S) ==
    IF S = {} THEN <<>>
    ELSE LET m == CHOOSE x \in S : \A y \in S \ {x} : NameLess(x, y)
         IN <<m>> \o SortedNames(S \ {m})

GlobParts == {n \in PartNames : parts[n] # "absent"}

----------------------------------------------------------------------------
(* stream_records_from_parts: the sequence of things the generator does when
   it is run to exhaustion.  The consumer's loop decides how far it runs. *)

OpenItem(f) == [t |-> "open", file |-> f]
RaiseItem(f) == [t |-> "raise", file |-> f]
RecItems(f, data) == [i \in 1..Len(data) |-> [t |-> "rec", file |-> f, rec |-> data[i]]]

RECURSIVE PartsItems(_)
PartsItems(names) ==
    IF names = <<>> THEN <<>>
    ELSE LET n == Head(names)
             f == FilePart(n)
         IN CASE parts[n] = "unreadable" -> <<RaiseItem(f)>>
              [] parts[n] = "corrupt" -> <<OpenItem(f)>> \o PartsItems(Tail(names))
              [] OTHER -> <<OpenItem(f)>> \o RecItems(f, partData[n])
                              \o PartsItems(Tail(names))

PartsFallback == PartsItems(SortedNames(GlobParts))

stream_records_parts_first ==
    IF GlobParts # {} THEN PartsFallback
    ELSE IF single = "valid"
         THEN <<OpenItem(FileSingle)>> \o RecItems(FileSingle, singleData)
         ELSE <<>>

stream_records_from_parts ==
    CASE single = "absent" -> PartsFallback
      [] single = "unreadable" -> <<RaiseItem(FileSingle)>>
      [] single = "valid" ->
            <<OpenItem(FileSingle)>> \o RecItems(FileSingle, singleData)
      [] OTHER -> <<OpenItem(FileSingle)>> \o PartsFallback

----------------------------------------------------------------------------
(* Requests and responses *)

NoReq == [op |-> "none"]
NoResp == [kind |-> "none", body |-> <<>>]
NoLoc == [parsed |-> FALSE, limit |-> 0, offset |-> 0]

Response(kind, body) == [kind |-> kind, body |-> body]

\* a query-string argument: not given, not an integer literal, or an integer
ArgAbsent == [k |-> "absent", v |-> 0]
ArgNaN == [k |-> "nan", v |-> 0]
ArgInt(n) == [k |-> "int", v |-> n]

LimitArgs == {ArgAbsent, ArgNaN} \cup {ArgInt(n) : n \in 0..MaxLimit}
                \cup {ArgInt(LIMIT_MAX), ArgInt(LIMIT_MAX + 1)}
OffsetArgs == {ArgAbsent, ArgNaN} \cup {ArgInt(n) : n \in (-1)..MaxOffset}

\* the <string:aadhar_query> path segment is never empty
AadharQueries == {<<"5">>, <<"1", "5">>, <<"5", "x">>, <<"sup2">>}

\* request.args.get("email"): None when the argument is not given
EmailAbsent == [given |-> FALSE, text |-> <<>>]
EmailArg(s) == [given |-> TRUE, text |-> s]
EmailArgs == {EmailAbsent} \cup
    {EmailArg(s) : s \in {<<>>, <<"a", "b">>, <<"A", "B">>, <<"b">>}}

\* int(request.args.get(name, default))
IntParses(arg) == arg.k # "nan"
IntOf(arg, default) == IF arg.k = "absent" THEN default ELSE arg.v

limit_in_range_open(limit) == limit >= LIMIT_MIN
limit_in_range(limit) == limit >= LIMIT_MIN /\ limit <= LIMIT_MAX

----------------------------------------------------------------------------
(* What a scan consumed of the generator's items *)

OpenedIn(items, n) ==
    LET pre == SelectSeq(SubSeq(items, 1, n), LAMBDA it : it.t = "open")
    IN [i \in 1..Len(pre) |-> pre[i].file]

ProducedIn(items, n) ==
    Len(SelectSeq(SubSeq(items, 1, n), LAMBDA it : it.t = "rec"))

Outcome(kind, body, consumed) ==
    [kind |-> kind, body |-> body, consumed |-> consumed]

----------------------------------------------------------------------------
(* get_record's loop, app.py:90-93 *)

id_matches_default_zero(rec, record_id) == get(rec, "id", 0) = record_id

id_matches(rec, record_id) == get(rec, "id", MISSING_ID) = record_id

RECURSIVE ScanRecord(_, _, _)
ScanRecord(items, i, record_id) ==
    IF i > Len(items) THEN Outcome("notfound", <<>>, Len(items))
    ELSE CASE items[i].t = "raise" -> Outcome("error", <<>>, i)
           [] items[i].t = "open" -> ScanRecord(items, i + 1, record_id)
           [] OTHER ->
                IF id_matches(items[i].rec, record_id)
                THEN Outcome("record", <<items[i].rec>>, i)
                ELSE ScanRecord(items, i + 1, record_id)

(* search_by_aadhar's loop, app.py:132-147 *)

in_window_counting_from_one(idx, start, end) == idx > start /\ idx <= end

in_window(idx, start, end) == idx >= start /\ idx < end

window_never_full(matches, limit) == FALSE

window_full(matches, limit) == Len(matches) >= limit

RECURSIVE ScanAadhar(_, _, _, _, _, _, _)
ScanAadhar(items, i, matches, idx, aadhar_query, limit, offset) ==
    LET start == offset
        end == offset + limit
        finish(n) == IF matches = <<>> THEN Outcome("notfound", <<>>, n)
                     ELSE Outcome("list", matches, n)
    IN IF i > Len(items) THEN finish(Len(items))
       ELSE CASE items[i].t = "raise" -> Outcome("error", <<>>, i)
              [] items[i].t = "open" ->
                   ScanAadhar(items, i + 1, matches, idx, aadhar_query, limit, offset)
              [] OTHER ->
                   LET a == get(items[i].rec, "aadhar_card", <<>>)
                       m == IF in_window(idx, start, end)
                            THEN Append(matches, items[i].rec) ELSE matches
                   IN IF contains(aadhar_query, a)
                      THEN IF window_full(m, limit)
                           THEN Outcome("list", m, i)
                           ELSE ScanAadhar(items, i + 1, m, idx + 1,
                                           aadhar_query, limit, offset)
                      ELSE ScanAadhar(items, i + 1, matches, idx,
                                      aadhar_query, limit, offset)

(* search_by_email's loop, app.py:165-168 *)

email_matches_stored_lowered_only(rec, email) ==
    lower(get(rec, "email", <<>>)) = email

email_matches(rec, email) == lower(get(rec, "email", <<>>)) = lower(email)

RECURSIVE ScanEmail(_, _, _)
ScanEmail(items, i, email) ==
    IF i > Len(items) THEN Outcome("notfound", <<>>, Len(items))
    ELSE CASE items[i].t = "raise" -> Outcome("error", <<>>, i)
           [] items[i].t = "open" -> ScanEmail(items, i + 1, email)
           [] OTHER ->
                IF email_matches(items[i].rec, email)
                THEN Outcome("record", <<items[i].rec>>, i)
                ELSE ScanEmail(items, i + 1, email)

----------------------------------------------------------------------------
(* The SQL statements *)

\* ORDER BY id: NULL sorts before every integer
IdBefore(r, s) ==
    IF "id" \notin DOMAIN r THEN TRUE
    ELSE IF "id" \notin DOMAIN s THEN FALSE
    ELSE r.id <= s.id

RECURSIVE OrderById(_)
OrderById(S) ==
    IF S = {} THEN <<>>
    ELSE LET m == CHOOSE x \in S : \A y \in S : IdBefore(x, y)
         IN <<m>> \o OrderById(S \ {m})

\* WHERE id = ?
SelectById(record_id) ==
    {r \in DbRows : "id" \in DOMAIN r /\ r.id = record_id}

\* WHERE aadhar_card LIKE '%q%' ORDER BY id LIMIT ? OFFSET ?
SelectByAadhar(aadhar_query, limit, offset) ==
    LET hits == OrderById({r \in DbRows : /\ "aadhar_card" \in DOMAIN r
                                         /\ contains(aadhar_query, r.aadhar_card)})
        last == IF offset + limit < Len(hits) THEN offset + limit ELSE Len(hits)
    IN SubSeq(hits, offset + 1, last)

\* WHERE LOWER(email) = LOWER(?)
SelectByEmail(email) ==
    {r \in DbRows : "email" \in DOMAIN r /\ lower(r.email) = lower(email)}

----------------------------------------------------------------------------
(* Initial states: the process right after the module was imported *)

DbStates == {"absent", "ok", "broken"}
SingleStates == {"absent", "valid", "malformed", "unreadable"}
PartStates == {"absent", "ok", "corrupt", "unreadable"}

Permuted(o) == [i \in 1..Len(Pool) |-> Pool[o[i]]]
Reversed(s) == [i \in 1..Len(s) |-> s[Len(s) + 1 - i]]

\* the source the storage found at import time selects
SelectBackend ==
    IF db # "absent" THEN "db"
    ELSE IF single = "valid" THEN "single"
    ELSE IF GlobParts # {} THEN "parts"
    ELSE "empty"

InitWith(orders, splits) ==
    /\ db \in DbStates
    /\ single \in SingleStates
    /\ parts \in [PartNames -> PartStates]
    /\ \E o \in orders, k \in splits :
          /\ partData = [n \in PartNames |->
                            IF n = P10 THEN SubSeq(Permuted(o), 1, k)
                            ELSE SubSeq(Permuted(o), k + 1, Len(Pool))]
          /\ singleData = Reversed(Permuted(o))
    /\ USE_DB = (db # "absent")
    /\ startSource = SelectBackend
    /\ pc = "idle"
    /\ req = NoReq
    /\ resp = NoResp
    /\ loc = NoLoc
    /\ opened = <<>>
    /\ produced = 0
    /\ connOpened = 0
    /\ connOpen = 0

Init == InitWith(Orders, Splits)

----------------------------------------------------------------------------
(* The handlers *)

use_db_rechecked == db # "absent"

\* the test `if USE_DB:` of the three handlers
use_db == USE_DB

\* a 400 answer before anything is read
Reject ==
    /\ resp' = Response("badinput", <<>>)
    /\ opened' = <<>>
    /\ produced' = 0
    /\ connOpened' = 0
    /\ connOpen' = 0
    /\ db' = db

\* conn = get_db_conn(); conn.execute(...).fetch...(); conn.close(); return ...
\* sqlite3.connect creates the file when it is missing; execute raises when
\* the file holds no table leaks.  answers: what the fetch may return.
DbReply(answers) ==
    /\ opened' = <<>>
    /\ produced' = 0
    /\ connOpened' = 1
    /\ IF db = "ok"
       THEN /\ \E a \in answers : resp' = a
            /\ connOpen' = 0
            /\ db' = db
       ELSE /\ resp' = Response("error", <<>>)
            /\ connOpen' = 1
            /\ db' = "broken"

\* the handler's loop over stream_records_from_parts()
StreamReply(out, items) ==
    /\ resp' = Response(out.kind, out.body)
    /\ opened' = OpenedIn(items, out.consumed)
    /\ produced' = ProducedIn(items, out.consumed)
    /\ connOpened' = 0
    /\ connOpen' = 0
    /\ db' = db

get_record ==
    /\ pc = "idle"
    /\ \E record_id \in 0..MaxId :
          /\ req' = [op |-> "record", record_id |-> record_id]
          /\ IF use_db
             THEN DbReply(IF SelectById(record_id) = {}
                          THEN {Response("notfound", <<>>)}
                          ELSE {Response("record", <<r>>) : r \in SelectById(record_id)})
             ELSE StreamReply(ScanRecord(stream_records_from_parts, 1, record_id),
                              stream_records_from_parts)
    /\ pc' = "done"
    /\ loc' = NoLoc
    /\ UNCHANGED <<USE_DB, startSource, single, parts, partData, singleData>>

search_by_aadhar ==
    /\ pc = "idle"
    /\ \E aadhar_query \in AadharQueries, la \in LimitArgs, oa \in OffsetArgs :
          /\ req' = [op |-> "aadhar", aadhar_query |-> aadhar_query,
                     limit |-> la, offset |-> oa]
          /\ IF ~isdigit(aadhar_query) \/ ~IntParses(la) \/ ~IntParses(oa)
             THEN Reject /\ loc' = NoLoc
             ELSE LET limit == IntOf(la, DEFAULT_LIMIT)
                      offset == IntOf(oa, DEFAULT_OFFSET)
                      rows == SelectByAadhar(aadhar_query, limit, offset)
                  IN /\ loc' = [parsed |-> TRUE, limit |-> limit, offset |-> offset]
                     /\ IF ~limit_in_range(limit) \/ offset < 0
                        THEN Reject
                        ELSE IF use_db
                        THEN DbReply(IF rows = <<>>
                                     THEN {Response("notfound", <<>>)}
                                     ELSE {Response("list", rows)})
                        ELSE StreamReply(
                                ScanAadhar(stream_records_from_parts, 1, <<>>, 0,
                                           aadhar_query, limit, offset),
                                stream_records_from_parts)
    /\ pc' = "done"
    /\ UNCHANGED <<USE_DB, startSource, single, parts, partData, singleData>>

search_by_email ==
    /\ pc = "idle"
    /\ \E ea \in EmailArgs :
          /\ req' = [op |-> "email", email |-> ea]
          /\ IF ~ea.given \/ ea.text = <<>>
             THEN Reject
             ELSE IF use_db
             THEN DbReply(IF SelectByEmail(ea.text) = {}
                          THEN {Response("notfound", <<>>)}
                          ELSE {Response("record", <<r>>) : r \in SelectByEmail(ea.text)})
             ELSE StreamReply(ScanEmail(stream_records_from_parts, 1, ea.text),
                              stream_records_from_parts)
    /\ pc' = "done"
    /\ loc' = NoLoc
    /\ UNCHANGED <<USE_DB, startSource, single, parts, partData, singleData>>

\* the response is sent; the server waits for the next request
AwaitRequest ==
    /\ pc = "done"
    /\ pc' = "idle"
    /\ req' = NoReq
    /\ resp' = NoResp
    /\ loc' = NoLoc
    /\ opened' = <<>>
    /\ produced' = 0
    /\ connOpened' = 0
    /\ connOpen' = 0
    /\ UNCHANGED <<USE_DB, startSource, db, single, parts, partData, singleData>>

Next == get_record \/ search_by_aadhar \/ search_by_email \/ AwaitRequest

Spec == Init /\ [][Next]_vars

----------------------------------------------------------------------------
(* The same process while files appear and disappear under it *)

StorageChange ==
    /\ pc = "idle"
    /\ \/ \E s \in DbStates \ {db} :
             db' = s /\ UNCHANGED <<single, parts>>
       \/ \E s \in SingleStates \ {single} :
             single' = s /\ UNCHANGED <<db, parts>>
       \/ \E n \in PartNames : \E s \in PartStates \ {parts[n]} :
             parts' = [parts EXCEPT ![n] = s] /\ UNCHANGED <<db, single>>
    /\ UNCHANGED <<USE_DB, startSource, partData, singleData, pc, req, resp,
                   loc, opened, produced, connOpened, connOpen>>

InitLife == InitWith({<<4, 3, 2, 1>>}, {1})

NextLife == Next \/ StorageChange

SpecLife == InitLife /\ [][NextLife]_vars

----------------------------------------------------------------------------
(* What the properties speak of: the batch sequence on disk, in canonical
   scan order.  "fake_leak_part_10.json" sorts before "fake_leak_part_2.json". *)

Range(s) == {s[i] : i \in 1..Len(s)}

IsPrefix(s, t) == Len(s) <= Len(t) /\ SubSeq(t, 1, Len(s)) = s

Last(s) == s[Len(s)]

LexicographicParts == <<P10, P2>>

PresentPartFiles ==
    LET ns == SelectSeq(LexicographicParts, LAMBDA n : parts[n] # "absent")
    IN [i \in 1..Len(ns) |-> FilePart(ns[i])]

BatchFiles ==
    IF single = "valid" THEN <<FileSingle>>
    ELSE SelectSeq(PresentPartFiles, LAMBDA f : parts[f.stem] = "ok")

BatchOf(f) == IF f.kind = "single" THEN singleData ELSE partData[f.stem]

RECURSIVE TaggedFrom(_)
TaggedFrom(files) ==
    IF files = <<>> THEN <<>>
    ELSE [i \in 1..Len(BatchOf(Head(files))) |->
             [rec |-> BatchOf(Head(files))[i], file |-> Head(files)]]
         \o TaggedFrom(Tail(files))

Tagged == TaggedFrom(BatchFiles)

Canonical == [i \in 1..Len(Tagged) |-> Tagged[i].rec]

HasId(r, x) == "id" \in DOMAIN r /\ r.id = x
HasAadhar(r, q) == "aadhar_card" \in DOMAIN r /\ contains(q, r.aadhar_card)
HasEmail(r, e) == "email" \in DOMAIN r /\ lower(r.email) = lower(e)

\* whether record r satisfies the predicate of the request being answered
Satisfies(r) ==
    CASE req.op = "record" -> HasId(r, req.record_id)
      [] req.op = "aadhar" -> HasAadhar(r, req.aadhar_query)
      [] req.op = "email" -> HasEmail(r, req.email.text)
      [] OTHER -> FALSE

\* the positions in canonical scan order of the records that satisfy it
MatchPositions ==
    SelectSeq([i \in 1..Len(Canonical) |-> i], LAMBDA i : Satisfies(Canonical[i]))

AllMatches == [k \in 1..Len(MatchPositions) |-> Canonical[MatchPositions[k]]]

Window(s, offset, limit) ==
    SubSeq(s, offset + 1, IF offset + limit < Len(s) THEN offset + limit ELSE Len(s))

Answered == pc = "done" /\ resp.kind \in {"record", "list", "notfound"}

OnStream == ~USE_DB

----------------------------------------------------------------------------
(* C1: on the batch-stream backend a partial-match search that returns gives
   at most limit records, and they are exactly the matches at positions
   [offset, offset+limit) of all matches in canonical scan order, in order. *)
C1_PaginationWindow ==
    (Answered /\ OnStream /\ req.op = "aadhar") =>
        LET w == Window(AllMatches, loc.offset, loc.limit)
        IN /\ resp.body = w
           /\ Len(resp.body) <= loc.limit
           /\ (resp.kind = "notfound") = (w = <<>>)
           /\ (resp.kind = "list") = (w # <<>>)

C1_Witness ==
    /\ Answered /\ OnStream /\ req.op = "aadhar"
    /\ loc.offset = 1 /\ loc.limit = 1
    /\ Len(AllMatches) = 3
    /\ resp.body = <<AllMatches[2]>>
    /\ Len(BatchFiles) = 2

StreamAnswer ==
    CASE req.op = "record" ->
            ScanRecord(stream_records_from_parts, 1, req.record_id)
      [] req.op = "aadhar" ->
            ScanAadhar(stream_records_from_parts, 1, <<>>, 0,
                       req.aadhar_query, loc.limit, loc.offset)
      [] OTHER -> ScanEmail(stream_records_from_parts, 1, req.email.text)

(* C2: with the same dataset in the table and in the files, a query answered
   from the table returns the same set of records the scan of the files
   returns for the same request. *)
C2_BackendEquivalence ==
    (/\ Answered /\ USE_DB /\ db = "ok"
     /\ Range(Canonical) = DbRows
     /\ StreamAnswer.kind # "error") =>
        Range(resp.body) = Range(StreamAnswer.body)

(* C3: a partition file that cannot be opened or parsed is skipped: the
   query does not end with an error and the records of the other partitions
   are still found. *)
C3_BadBatchSkipped ==
    (/\ pc = "done" /\ OnStream /\ resp.kind # "badinput"
     /\ single \in {"absent", "malformed"}) =>
        /\ resp.kind # "error"
        /\ (req.op = "record" /\ MatchPositions # <<>>) => resp.kind = "record"

NonDigitChars == {"x"}

BadAadharRequest ==
    \/ \E i \in 1..Len(req.aadhar_query) : req.aadhar_query[i] \in NonDigitChars
    \/ req.limit.k = "nan"
    \/ req.offset.k = "nan"
    \/ (req.limit.k = "int" /\ (req.limit.v < 1 \/ req.limit.v > 1000))
    \/ (req.offset.k = "int" /\ req.offset.v < 0)

(* C4: a partial-match search with a limit outside [1,1000], a limit or
   offset that is no integer, an offset below 0 or a non-digit in the key is
   answered with a client-input error before any connection is opened or any
   file read; every other request is not rejected and runs with the limit
   and offset given, or with 10 and 0 where they are not given. *)
C4_ValidationFirst ==
    (pc = "done" /\ req.op = "aadhar") =>
        IF BadAadharRequest
        THEN /\ resp.kind = "badinput"
             /\ opened = <<>> /\ produced = 0 /\ connOpened = 0
        ELSE /\ resp.kind # "badinput"
             /\ loc.limit = (IF req.limit.k = "absent" THEN 10 ELSE req.limit.v)
             /\ loc.offset = (IF req.offset.k = "absent" THEN 0 ELSE req.offset.v)
             /\ (OnStream /\ Answered) =>
                    resp.body = Window(AllMatches,
                                       IF req.offset.k = "absent" THEN 0 ELSE req.offset.v,
                                       IF req.limit.k = "absent" THEN 10 ELSE req.limit.v)

C4_Witness ==
    /\ pc = "done" /\ req.op = "aadhar"
    /\ req.limit = ArgInt(1001) /\ req.offset = ArgAbsent
    /\ req.aadhar_query = <<"5">>
    /\ resp.kind = "badinput"
    /\ db = "ok"

PartFilesOf(files) == SelectSeq(files, LAMBDA f : f.kind = "part")

(* C5: the source of a request is the first that applies of: the database
   file is there -> one connection and no file; else fake_leak1.json holds a
   JSON array -> it is the only file read; else (it is absent or malformed)
   the partition files are read in lexicographic order of their names; else
   nothing is read and the answer is not-found, never an error. *)
C5_SelectionOrder ==
    (pc = "done" /\ resp.kind # "badinput") =>
        IF db # "absent"
        THEN connOpened = 1 /\ opened = <<>> /\ produced = 0
        ELSE /\ connOpened = 0
             /\ (single = "valid") => opened = <<FileSingle>>
             /\ (single \in {"absent", "malformed"}) =>
                   /\ IsPrefix(PartFilesOf(opened), PresentPartFiles)
                   /\ (single = "malformed") =>
                         (opened # <<>> /\ opened[1] = FileSingle)
                   /\ (single = "absent") => PartFilesOf(opened) = opened
                   /\ (resp.kind = "notfound") =>
                         PartFilesOf(opened) = PresentPartFiles
                   /\ (PresentPartFiles = <<>>) =>
                         (resp.kind = "notfound" /\ produced = 0)

C5_Witness ==
    /\ pc = "done" /\ resp.kind = "notfound"
    /\ db = "absent" /\ single = "malformed"
    /\ opened = <<FileSingle, FilePart(P10), FilePart(P2)>>
    /\ produced = Len(Pool)

(* C6: a lookup by id that returns gives a record whose id is the requested
   integer when the dataset holds one, and not-found when it holds none; a
   record without an id field is never returned. *)
C6_LookupById ==
    (Answered /\ req.op = "record") =>
        LET dataset == IF USE_DB THEN DbRows ELSE Range(Canonical)
        IN /\ (resp.kind = "record") =
                 (\E r \in dataset : HasId(r, req.record_id))
           /\ (resp.kind = "record") =>
                 /\ Len(resp.body) = 1
                 /\ resp.body[1] \in dataset
                 /\ HasId(resp.body[1], req.record_id)
           /\ resp.kind \in {"record", "notfound"}

C6_Witness ==
    /\ Answered /\ OnStream /\ req.op = "record"
    /\ resp.kind = "record"
    /\ produced = 3
    /\ "id" \notin DOMAIN Canonical[2]
    /\ Len(BatchFiles) = 2

(* C7: on the batch-stream backend a lookup by email that returns gives the
   first record in canonical scan order whose email equals the query when
   both are lower-cased, and not-found exactly when there is none. *)
C7_EmailCaseInsensitive ==
    (Answered /\ OnStream /\ req.op = "email") =>
        IF MatchPositions = <<>> THEN resp.kind = "notfound"
        ELSE resp = Response("record", <<Canonical[MatchPositions[1]]>>)

C7_Witness ==
    /\ Answered /\ OnStream /\ req.op = "email"
    /\ req.email.text = <<"A", "B">>
    /\ resp.kind = "record"
    /\ resp.body[1].email = <<"a", "b">>
    /\ Len(MatchPositions) = 2

(* C8: no query has finished while a connection it opened is still open,
   and no query opens more than one. *)
C8_ConnectionReleased ==
    pc = "done" => (connOpen = 0 /\ connOpened <= 1)

(* C9: a scan that returns has taken from the source exactly the records up
   to the one that fills the window (the (offset+limit)-th match, the first
   match for the id and email lookups), or every record when there are not
   that many matches; no file after the one holding that record is opened. *)
C9_EarlyTermination ==
    (Answered /\ OnStream) =>
        LET need == IF req.op = "aadhar" THEN loc.offset + loc.limit ELSE 1
            filled == Len(MatchPositions) >= need
            stop == IF filled THEN MatchPositions[need] ELSE Len(Canonical)
        IN /\ produced = stop
           /\ filled => Last(opened) = Tagged[stop].file
           /\ ~filled => Range(BatchFiles) \subseteq Range(opened)

C9_Witness ==
    /\ Answered /\ OnStream /\ req.op = "aadhar"
    /\ loc.offset = 1 /\ loc.limit = 1
    /\ resp.kind = "list"
    /\ produced < Len(Canonical)
    /\ Len(MatchPositions) = 3
    /\ opened = <<FilePart(P10)>>
    /\ parts[P2] = "ok"

SourceUsed ==
    IF connOpened > 0 THEN "db"
    ELSE IF PartFilesOf(opened) # <<>> THEN "parts"
    ELSE IF opened = <<FileSingle>> /\ single = "valid" THEN "single"
    ELSE "empty"

(* C10 as stated: every answered query is answered from the source (table,
   single file, partition files, nothing) that the storage selected at
   process start. *)
C10_SourceFixed == Answered => SourceUsed = startSource

(* C10 as amended: whether a query goes to the table or to the files is what
   the storage selected at process start, whatever has appeared or
   disappeared since. *)
C10_BackendKindFixed ==
    (pc = "done" /\ resp.kind # "badinput") =>
        /\ (connOpened = 1) = (startSource = "db")
        /\ (startSource = "db") => opened = <<>>
        /\ (startSource # "db") => connOpened = 0

C10_Witness ==
    /\ Answered
    /\ startSource = "parts"
    /\ db = "ok"
    /\ single = "valid"
    /\ opened = <<FileSingle>>

====
